---------------------------- MODULE Spec2Model ----------------------------
(***************************************************************************)
(* A model of the numeric core of biosensors.usc:                          *)
(*   inst/include/WassersteinRegression.h  (ic_unique_rows, getcC,         *)
(*                                          wasserstein_regression)        *)
(*   inst/include/NadarayaRegression.h     (trapecio, eucdistance1,        *)
(*                                          nadayara_regression,           *)
(*                                          nadayara_predicion)            *)
(*                                                                         *)
(* Numbers.  A double is modelled by an exact rational <<n, d>> in lowest  *)
(* terms with d > 0, so equal values are equal tuples.  Rounding of the    *)
(* floating-point unit is not modelled.                                    *)
(* Indices.  Armadillo indexes from 0, sequences here from 1: element i of *)
(* the code is element i+1 of the model, for rows, columns and the values  *)
(* stored in index vectors (indices, ic, dec, indices1, indices2).         *)
(* Matrices are sequences of rows; a row is a sequence of rationals.       *)
(***************************************************************************)
EXTENDS Integers, Sequences, FiniteSets, TLC

VARIABLES
    (* ic_unique_rows, run on its own *)
    A, B, indices, C, ic, pcU,
    (* wasserstein_regression: its arguments *)
    xfit, q, Q0, xpred, t, qdmin,
    (* wasserstein_regression: its locals, the iterations of the parallel  *)
    (* loop (iter), the returned structure and the position in the body    *)
    xall, icW, qall, Q0all, dec, QP_used, iter, Qall, result, pcW,
    (* history: qall and Q0all as the OLS fit left them *)
    qall0, Q0all0,
    (* nadayara_regression and nadayara_predicion: the arguments, the      *)
    (* function called (opN), the fold counter l, the locals and outputs   *)
    X, tN, Y, hs, indices1, indices2, opN, l, distancias, R2validacion,
    prediccionesfinales, insample, pcN

varsU == <<A, B, indices, C, ic, pcU>>
argsW == <<xfit, q, Q0, xpred, t, qdmin>>
varsW == <<xfit, q, Q0, xpred, t, qdmin,
           xall, icW, qall, Q0all, dec, QP_used, iter, Qall, result, pcW,
           qall0, Q0all0>>
argsN == <<X, tN, Y, hs, indices1, indices2, opN>>
varsN == <<X, tN, Y, hs, indices1, indices2, opN, l, distancias, R2validacion,
           prediccionesfinales, insample, pcN>>
vars == <<varsU, varsW, varsN>>

(* the state of a function that is not running *)
NoResult == [Qfit |-> <<>>, Qpred |-> <<>>, qfit |-> <<>>, qpred |-> <<>>,
             ffit |-> <<>>, fpred |-> <<>>, xfit |-> <<>>, xpred |-> <<>>,
             QP_used |-> 0]

LocalsW0 ==
    /\ xall = <<>> /\ icW = <<>> /\ qall = <<>> /\ Q0all = <<>>
    /\ dec = <<>> /\ QP_used = 0 /\ iter = <<>> /\ Qall = <<>>
    /\ result = NoResult /\ qall0 = <<>> /\ Q0all0 = <<>>

IdleW ==
    /\ xfit = <<>> /\ q = <<>> /\ Q0 = <<>> /\ xpred = <<>> /\ t = <<>>
    /\ qdmin = <<0, 1>> /\ pcW = "idle"
    /\ LocalsW0

IdleU ==
    /\ A = <<>> /\ B = <<>> /\ indices = <<>> /\ C = <<>> /\ ic = <<>>
    /\ pcU = "idle"

IdleN ==
    /\ X = <<>> /\ tN = <<>> /\ Y = <<>> /\ hs = <<>>
    /\ indices1 = <<>> /\ indices2 = <<>> /\ opN = "none" /\ l = 0
    /\ distancias = <<>> /\ R2validacion = <<>> /\ prediccionesfinales = <<>>
    /\ insample = <<>> /\ pcN = "idle"

-----------------------------------------------------------------------------
(* Rational arithmetic standing for double arithmetic *)

Abs(x) == IF x < 0 THEN -x ELSE x

RECURSIVE GCD(_, _)
GCD(a, b) == IF b = 0 THEN a ELSE GCD(b, a % b)

(* n / d in lowest terms; x / 0 is <<1, 0>> (+Inf), <<-1, 0>> (-Inf) or      *)
(* <<0, 0>> (NaN)                                                          *)
Rat(n, d) ==
    LET s == IF d < 0 THEN -1 ELSE 1
        g == GCD(Abs(n), Abs(d))
    IN  IF d = 0 THEN <<(IF n > 0 THEN 1 ELSE IF n < 0 THEN -1 ELSE 0), 0>>
        ELSE <<(s * n) \div g, (s * d) \div g>>

RInt(i) == <<i, 1>>
RZero == RInt(0)
ROne == RInt(1)
RAdd(a, b) ==
    IF a[2] = 0 \/ b[2] = 0 THEN Rat(a[1] * b[2] + b[1] * a[2], 0)
    ELSE LET g == GCD(a[2], b[2])
         IN  Rat(a[1] * (b[2] \div g) + b[1] * (a[2] \div g), (a[2] \div g) * b[2])
RNeg(a) == <<-a[1], a[2]>>
RSub(a, b) == RAdd(a, RNeg(b))
RMul(a, b) == Rat(a[1] * b[1], a[2] * b[2])
RDiv(a, b) == Rat(a[1] * b[2], a[2] * b[1])
RAbs(a) == <<Abs(a[1]), a[2]>>
RLt(a, b) == a[1] * b[2] < b[1] * a[2]
RLe(a, b) == a[1] * b[2] <= b[1] * a[2]
RGt(a, b) == RLt(b, a)

(* column c of matrix M, as a sequence *)
Col(M, c) == [i \in 1..Len(M) |-> M[i][c]] \o <<>>

RECURSIVE RSum(_)
RSum(s) == IF s = <<>> THEN RZero ELSE RAdd(s[1], RSum(Tail(s)))

-----------------------------------------------------------------------------
(* Row canonicalization: WassersteinRegression.h *)

(* the absolute tolerance 0.002 of both approx_equal calls *)
Tol == Rat(2, 1000)

(* a faulty approx_equal that compares the first coordinate only *)
approx_equal_first(rowA, rowB, tol) ==
    /\ Len(rowA) = Len(rowB)
    /\ RLe(RAbs(RSub(rowA[1], rowB[1])), tol)

(* arma::approx_equal(a, b, "absdiff", tol): same size and every           *)
(* |a(k) - b(k)| <= tol                                                    *)
approx_equal(rowA, rowB, tol) ==
    /\ Len(rowA) = Len(rowB)
    /\ \A k \in 1..Len(rowA) : RLe(RAbs(RSub(rowA[k], rowB[k])), tol)

(* is_smaller(A, i, j): true at the first column where row i is GREATER    *)
(* than row j, false where it is less, false when the rows are equal       *)
RECURSIVE is_smaller_from(_, _, _, _)
is_smaller_from(M, i, j, k) ==
    IF k > Len(M[i]) THEN FALSE
    ELSE IF RGt(M[i][k], M[j][k]) THEN TRUE
    ELSE IF RLt(M[i][k], M[j][k]) THEN FALSE
    ELSE is_smaller_from(M, i, j, k + 1)

(* a faulty is_smaller that is true where row i is less than row j *)
is_smaller_less(M, i, j) == is_smaller_from(M, j, i, 1)

is_smaller(M, i, j) == is_smaller_from(M, i, j, 1)

(* find_index(C, rowA): the first row of C within the tolerance of rowA;   *)
(* the fall-through "return 0" names the first row                         *)
find_index_hits(CC, rowA) == {i \in 1..Len(CC) : approx_equal(rowA, CC[i], Tol)}

Min(S) == CHOOSE x \in S : \A y \in S : x <= y

(* a faulty lookup that never matches and always falls through to row 0 *)
find_index_fallthrough(CC, rowA) == 1

find_index(CC, rowA) ==
    IF find_index_hits(CC, rowA) # {} THEN Min(find_index_hits(CC, rowA)) ELSE 1

(* ic_unique_rows, first loop: keep a row unless an earlier kept row is    *)
(* within the tolerance of it                                              *)
RECURSIVE unique_loop(_, _, _)
unique_loop(AA, i, BB) ==
    IF i > Len(AA) THEN BB
    ELSE IF \E j \in 1..Len(BB) : approx_equal(AA[i], BB[j], Tol)
         THEN unique_loop(AA, i + 1, BB)
         ELSE unique_loop(AA, i + 1, Append(BB, AA[i]))

(* arma::sort_index(v): an index vector that sorts v ascending; std::sort  *)
(* is not stable, so equal values may come in any order                    *)
RECURSIVE sort_orders(_, _)
sort_orders(v, rest) ==
    IF rest = {} THEN {<<>>}
    ELSE UNION { {<<i>> \o p : p \in sort_orders(v, rest \ {i})} :
                 i \in {a \in rest : \A b \in rest : RLe(v[a], v[b])} }

sort_index(v) == sort_orders(v, 1..Len(v))

Swap(p, i, j) == [p EXCEPT ![i] = p[j], ![j] = p[i]]

(* ic_unique_rows, the tie-break loops over indices *)
RECURSIVE tie_inner(_, _, _, _)
tie_inner(BB, p, i, j) ==
    IF j > Len(p) THEN p
    ELSE IF RLt(BB[p[i]][1], BB[p[j]][1]) THEN p
    ELSE IF is_smaller(BB, p[i], p[j]) THEN tie_inner(BB, Swap(p, i, j), i, j + 1)
    ELSE tie_inner(BB, p, i, j + 1)

RECURSIVE tie_outer(_, _, _)
tie_outer(BB, p, i) ==
    IF i > Len(p) - 1 THEN p
    ELSE tie_outer(BB, tie_inner(BB, p, i, i + 1), i + 1)

(* C.row(i) = B.row(indices(i)) *)
reorder_rows(BB, p) == [i \in 1..Len(BB) |-> BB[p[i]]] \o <<>>

(* ic(i) = find_index(C, A.row(i)) *)
lookup_rows(AA, CC) == [i \in 1..Len(AA) |-> find_index(CC, AA[i])] \o <<>>

-----------------------------------------------------------------------------
(* Vectors and matrices of rationals *)

Zeros(n) == [i \in 1..n |-> RZero] \o <<>>
VAdd(u, v) == [i \in 1..Len(u) |-> RAdd(u[i], v[i])] \o <<>>
VScale(a, u) == [i \in 1..Len(u) |-> RMul(a, u[i])] \o <<>>
Dot(u, v) == RSum([i \in 1..Len(u) |-> RMul(u[i], v[i])])
MatVec(M, u) == [i \in 1..Len(M) |-> Dot(M[i], u)] \o <<>>
MAdd(M1, M2) == [i \in 1..Len(M1) |-> VAdd(M1[i], M2[i])] \o <<>>
MScale(a, M) == [i \in 1..Len(M) |-> VScale(a, M[i])] \o <<>>
(* u * v.t() *)
Outer(u, v) == [i \in 1..Len(u) |-> [j \in 1..Len(v) |-> RMul(u[i], v[j])]] \o <<>>
(* arma::diff *)
Diff(u) == [i \in 1..(Len(u) - 1) |-> RSub(u[i + 1], u[i])] \o <<>>
(* arma::cumsum *)
RECURSIVE CumSum(_)
CumSum(u) ==
    IF Len(u) <= 1 THEN u
    ELSE LET c == CumSum(SubSeq(u, 1, Len(u) - 1))
         IN  Append(c, RAdd(c[Len(c)], u[Len(u)]))
(* v.subvec(a, b) and M.rows(a, b), positions counted from 1 *)
subvec(v, a, b) == SubSeq(v, a, b)
(* M.rows(idx) for an index vector idx *)
rows_at(M, idx) == [i \in 1..Len(idx) |-> M[idx[i]]] \o <<>>
Half == Rat(1, 2)

-----------------------------------------------------------------------------
(* cumtrapz and getcC: WassersteinRegression.h *)

(* cumtrapz(X, Y) for row vectors X, Y of equal length n >= 2: 0 followed  *)
(* by 0.5 * cumsum((X(k+1) - X(k)) * (Y(k+1) + Y(k)))                      *)
cumtrapz(XX, YY) ==
    LET n == Len(XX)
        tmp == [k \in 1..(n - 1) |->
                   RMul(RSub(XX[k + 1], XX[k]), RAdd(YY[k + 1], YY[k]))] \o <<>>
    IN  <<RZero>> \o VScale(Half, CumSum(tmp))

(* getcC(t): the vector c and matrix C of the quadratic program *)
getcC(tt) ==
    LET deltaT == Diff(tt)
        deltaTp == deltaT \o <<RZero>>
        deltaTm == <<RZero>> \o deltaT
        bm == VScale(Half, VAdd(deltaTp, deltaTm))
        Dm == Outer(bm, bm)
        m == Len(deltaT) - 1
        bk(k) == VScale(Half, VAdd(SubSeq(deltaTm, 1, k + 2), SubSeq(deltaTp, 1, k + 2)))
                    \o Zeros(m - k)
        wk(k) == RMul(Half, RAdd(deltaT[k + 1], deltaT[k + 2]))
        cAt[k \in 0..m] ==
            IF k = 0 THEN VScale(RMul(Half, deltaT[m + 1]), bm)
            ELSE VAdd(cAt[k - 1], VScale(wk(k - 1), bk(k - 1)))
        CAt[k \in 0..m] ==
            IF k = 0 THEN MScale(RMul(Rat(1, 10), deltaT[m + 1]), Dm)
            ELSE MAdd(CAt[k - 1], MScale(wk(k - 1), Outer(bk(k - 1), bk(k - 1))))
    IN  [c |-> cAt[m], C |-> CAt[m]]

-----------------------------------------------------------------------------
(* wasserstein_regression: WassersteinRegression.h *)

(* arma::mean(xfit, 0): the row of column means *)
mean_row(M) ==
    [c \in 1..Len(M[1]) |-> RDiv(RSum(Col(M, c)), RInt(Len(M)))]

(* the determinant of A.t() * A for A = [1, xfit] with one covariate *)
normal_det(xf) ==
    LET x == Col(xf, 1)
    IN  RSub(RMul(RInt(Len(x)), Dot(x, x)), RMul(RSum(x), RSum(x)))

(* arma::solve(A.t() * A, A.t() * y) for A = [1, xfit] with one covariate  *)
(* and one response column y: <<intercept, slope>>                         *)
ols_solve(xf, y) ==
    LET x == Col(xf, 1)
        n == RInt(Len(x))
        Sx == RSum(x)
        Sxx == Dot(x, x)
        Sy == RSum(y)
        Sxy == Dot(x, y)
        det == normal_det(xf)
    IN  << RDiv(RSub(RMul(Sxx, Sy), RMul(Sx, Sxy)), det),
           RDiv(RSub(RMul(n, Sxy), RMul(Sx, Sy)), det) >>

(* join_horiz(ones(r,1), xall) * beta, for one response column *)
ols_eval(xa, beta) == [r \in 1..Len(xa) |-> RAdd(beta[1], RMul(xa[r][1], beta[2]))] \o <<>>

(* qall: one OLS model per grid column, evaluated at every canonical row *)
ols_qall(xf, qq, xa) ==
    LET fitcol == [c \in 1..Len(qq[1]) |-> ols_eval(xa, ols_solve(xf, Col(qq, c)))] \o <<>>
    IN  [r \in 1..Len(xa) |-> [c \in 1..Len(qq[1]) |-> fitcol[c][r]] \o <<>>] \o <<>>

RECURSIVE RMinOf(_)
RMinOf(u) ==
    IF Len(u) = 1 THEN u[1]
    ELSE LET mt == RMinOf(Tail(u)) IN IF RLt(u[1], mt) THEN u[1] ELSE mt

(* arma::find(arma::min(qall.t(), 0) < 0): the rows with a negative entry, *)
(* ascending                                                               *)
RECURSIVE find_negative(_, _)
find_negative(M, r) ==
    IF r > Len(M) THEN <<>>
    ELSE (IF RLt(RMinOf(M[r]), RZero) THEN <<r>> ELSE <<>>) \o find_negative(M, r + 1)

(* D = [1, c.t(); c, C] *)
D_of(cC) ==
    <<(<<ROne>> \o cC.c)>> \o [i \in 1..Len(cC.c) |-> <<cC.c[i]>> \o cC.C[i]]

(* d = -[ax + c.t()*hx.t(); ax*c + C*hx.t()] *)
d_of(cC, ax, hx) ==
    VScale(RInt(-1),
           <<RAdd(ax, Dot(cC.c, hx))>> \o VAdd(VScale(ax, cC.c), MatVec(cC.C, hx)))

(* V1 = [zeros(m,1), -eye(m,m)] *)
V1_of(m) ==
    [i \in 1..m |-> [j \in 1..(m + 1) |-> IF j = i + 1 THEN RInt(-1) ELSE RZero]]

(* a faulty v1 that forgets the lower bound qdmin *)
v1_zero(qd, m) == Zeros(m)

(* v1 = -repmat(Qdmin, 1, m) *)
v1_of(qd, m) == [i \in 1..m |-> RNeg(qd)] \o <<>>

(* V2 = [zeros(m-1,1), [eye(m-1), zeros(m-1,1)] - [zeros(m-1,1), eye(m-1)]] *)
V2_of(m) ==
    [i \in 1..(m - 1) |->
        [j \in 1..(m + 1) |->
            IF j = i + 1 THEN ROne ELSE IF j = i + 2 THEN RInt(-1) ELSE RZero]]

(* v2 = 1.5 * abs(diff(hx)) *)
v2_of(hx) == [i \in 1..(Len(hx) - 1) |-> RMul(Rat(3, 2), RAbs(Diff(hx)[i]))] \o <<>>

(* V = [V1; V2; -V2] and v = [v1, v2, v2] *)
V_of(m) == V1_of(m) \o V2_of(m) \o MScale(RInt(-1), V2_of(m))
v_of(qd, hx) == v1_of(qd, Len(hx)) \o v2_of(hx) \o v2_of(hx)

-----------------------------------------------------------------------------
(* The quadratic-program solver consumed by wasserstein_regression.  It    *)
(* is not part of the two headers: it is taken to return a point x with    *)
(* V*x <= v (row by row) or to throw.  The points it may return are drawn  *)
(* from a small lattice that holds values below, at and above qdmin.       *)

SolQ0 == {ROne}
SolQ(qd) == {RZero, qd}
Lattice(qd, m) == {<<x0>> \o y : x0 \in SolQ0, y \in [1..m -> SolQ(qd)]}
Feasible(V, v, x) == \A i \in 1..Len(V) : RLe(Dot(V[i], x), v[i])

quadprog(D, d, V, v, qd) ==
    {[ok |-> FALSE, x |-> <<>>]}
        \cup {[ok |-> TRUE, x |-> x] : x \in {y \in Lattice(qd, Len(V[1]) - 1) : Feasible(V, v, y)}}

-----------------------------------------------------------------------------
(* wasserstein_regression, one action per step of its body; the iterations *)
(* of the "omp parallel for" loop interleave at their accesses to the      *)
(* shared qall and Q0all                                                   *)

MaxPred == 2
(* the covariate columns tried for xfit (two or three fit rows, one         *)
(* covariate), the prediction covariates and the quantile-density rows     *)
XFitCols == { <<RInt(0), RInt(1)>>, <<RInt(1), RInt(0)>>,
              <<RInt(0), RInt(1), RInt(2)>>, <<RInt(1), RInt(0), RInt(1)>> }
XPredVals == {Rat(1001, 1000), RInt(3), RInt(4)}
QCurves == { <<RInt(1), RInt(1), RInt(1)>>, <<RInt(3), RInt(2), RInt(3)>>,
             <<RInt(10), RInt(1), RInt(1)>> }
Q0Set(n) == {[i \in 1..n |-> RInt(i)]}
Qdmins == {Rat(1, 2)}
TGrids ==
    { <<RZero, Half, ROne>>,            (* a valid grid *)
      <<RZero, Rat(3, 2), ROne>>,       (* not increasing inside *)
      <<Rat(1, 4), Half, ROne>>,        (* does not start at 0 *)
      <<RZero, Half, Rat(3, 4)>>,       (* does not end at 1 *)
      <<RZero, ROne>> }                 (* wrong length *)

InitW ==
    /\ IdleU
    /\ IdleN
    /\ \E xc \in XFitCols :
        /\ xfit = [i \in 1..Len(xc) |-> <<xc[i]>>]
        /\ normal_det(xfit) # RZero
        /\ q \in [1..Len(xc) -> QCurves]
        /\ Q0 \in Q0Set(Len(xc))
    /\ \E k \in 1..MaxPred : xpred \in [1..k -> [1..1 -> XPredVals]]
    /\ t \in TGrids
    /\ qdmin \in Qdmins
    /\ pcW = "validate"
    /\ LocalsW0

nW == Len(q)
mW == Len(q[1])
kW == Len(xpred)

(* a grid that is strictly increasing *)
Increasing(tt) == \A i \in 1..(Len(tt) - 1) : RLt(tt[i], tt[i + 1])

(* lines 212-219: the two checks on t *)
GridAccepted == Len(t) = mW /\ t[1] = RZero /\ t[Len(t)] = ROne

Validate ==
    /\ pcW = "validate"
    /\ pcW' = IF GridAccepted THEN "canon" ELSE "thrown"
    /\ UNCHANGED <<argsW, xall, icW, qall, Q0all, dec, QP_used, iter, Qall, result,
                   qall0, Q0all0, varsU, varsN>>

(* lines 221-227: canonicalize [xpred; xfit; xbar] *)
Canonicalize ==
    /\ pcW = "canon"
    /\ LET joined == xpred \o xfit \o <<mean_row(xfit)>>
           BB == unique_loop(joined, 1, <<>>)
       IN  \E p \in sort_index(Col(BB, 1)) :
              LET CC == reorder_rows(BB, tie_outer(BB, p, 1))
              IN  /\ xall' = CC
                  /\ icW' = lookup_rows(joined, CC)
    /\ pcW' = "ols"
    /\ UNCHANGED <<argsW, qall, Q0all, dec, QP_used, iter, Qall, result,
                   qall0, Q0all0, varsU, varsN>>

(* lines 229-235: the OLS fits, evaluated at every canonical row *)
OLSFit ==
    /\ pcW = "ols"
    /\ qall' = ols_qall(xfit, q, xall)
    /\ Q0all' = ols_eval(xall, ols_solve(xfit, Q0))
    /\ qall0' = qall'
    /\ Q0all0' = Q0all'
    /\ pcW' = "check"
    /\ UNCHANGED <<argsW, xall, icW, dec, QP_used, iter, Qall, result, varsU, varsN>>

NewIter == [pc |-> "ax", ax |-> RZero, hx |-> <<>>, tmp |-> <<>>, ok |-> FALSE,
            touched |-> {}]

(* lines 238-256: flag the rows with a negative entry and enter the loop *)
PositivityCheck ==
    /\ pcW = "check"
    /\ dec' = find_negative(qall, 1)
    /\ QP_used' = IF dec' # <<>> THEN 1 ELSE 0
    /\ iter' = [j \in 1..Len(dec') |-> NewIter]
    /\ pcW' = "loop"
    /\ UNCHANGED <<argsW, xall, icW, qall, Q0all, Qall, result, qall0, Q0all0, varsU, varsN>>

(* a faulty loop body that addresses row j instead of row dec(j) *)
row_of_j(decv, j) == j

(* the row iteration j addresses: dec(j) *)
row_of(decv, j) == decv[j]

(* line 259: ax = Q0all(dec(j)) *)
IterReadAx(j) ==
    /\ pcW = "loop"
    /\ iter[j].pc = "ax"
    /\ iter' = [iter EXCEPT ![j].ax = Q0all[row_of(dec, j)],
                            ![j].pc = "hx",
                            ![j].touched = @ \cup {<<"Q0all", row_of(dec, j)>>}]
    /\ UNCHANGED <<argsW, pcW, xall, icW, qall, Q0all, dec, QP_used, Qall, result,
                   qall0, Q0all0, varsU, varsN>>

(* lines 260-273: hx = qall.row(dec(j)), the program for this row, and the *)
(* solve; tmp stays zero when quadprog throws                              *)
IterSolve(j) ==
    /\ pcW = "loop"
    /\ iter[j].pc = "hx"
    /\ LET hx == qall[row_of(dec, j)]
           cC == getcC(t)
       IN  \E out \in quadprog(D_of(cC), d_of(cC, iter[j].ax, hx),
                               V_of(mW), v_of(qdmin, hx), qdmin) :
              iter' = [iter EXCEPT ![j].hx = hx,
                                   ![j].tmp = IF out.ok THEN out.x ELSE Zeros(mW + 1),
                                   ![j].ok = out.ok,
                                   ![j].pc = "wq",
                                   ![j].touched = @ \cup {<<"qall", row_of(dec, j)>>}]
    /\ UNCHANGED <<argsW, pcW, xall, icW, qall, Q0all, dec, QP_used, Qall, result,
                   qall0, Q0all0, varsU, varsN>>

(* line 274: qall.row(dec(j)) = tmp.subvec(1, tmp.n_elem-1).t() *)
IterWriteQ(j) ==
    /\ pcW = "loop"
    /\ iter[j].pc = "wq"
    /\ qall' = [qall EXCEPT ![row_of(dec, j)] = subvec(iter[j].tmp, 2, Len(iter[j].tmp))]
    /\ iter' = [iter EXCEPT ![j].pc = "wQ0",
                            ![j].touched = @ \cup {<<"qall", row_of(dec, j)>>}]
    /\ UNCHANGED <<argsW, pcW, xall, icW, Q0all, dec, QP_used, Qall, result,
                   qall0, Q0all0, varsU, varsN>>

(* line 275: Q0all(dec(j)) = tmp(0) *)
IterWriteQ0(j) ==
    /\ pcW = "loop"
    /\ iter[j].pc = "wQ0"
    /\ Q0all' = [Q0all EXCEPT ![row_of(dec, j)] = iter[j].tmp[1]]
    /\ iter' = [iter EXCEPT ![j].pc = "done",
                            ![j].touched = @ \cup {<<"Q0all", row_of(dec, j)>>}]
    /\ UNCHANGED <<argsW, pcW, xall, icW, qall, dec, QP_used, Qall, result,
                   qall0, Q0all0, varsU, varsN>>

LoopDone == pcW = "loop" /\ \A j \in 1..Len(iter) : iter[j].pc = "done"

(* lines 279-286: Qall.row(j) = Q0all(j) + cumtrapz(t, qall.row(j)) *)
Integrate ==
    /\ LoopDone
    /\ Qall' = [j \in 1..Len(qall) |->
                   LET ct == cumtrapz(t, qall[j])
                   IN  [c \in 1..mW |-> RAdd(Q0all[j], ct[c])] \o <<>>] \o <<>>
    /\ pcW' = "split"
    /\ UNCHANGED <<argsW, xall, icW, qall, Q0all, dec, QP_used, iter, result,
                   qall0, Q0all0, varsU, varsN>>

(* 1 / x on doubles; 1 / 0 is +Inf, written <<1, 0>> *)
RInv(a) == RDiv(ROne, a)

(* a faulty split whose fit rows start one position late *)
fit_idx_late(icv, k, n) == subvec(icv, k + 2, k + n + 1)

(* ic.subvec(k, k+n-1) and ic.subvec(0, k-1), positions counted from 1 *)
fit_idx(icv, k, n) == subvec(icv, k + 1, k + n)
pred_idx(icv, k) == subvec(icv, 1, k)

(* lines 288-306: densities, the split into fit and prediction rows, return *)
Return ==
    /\ pcW = "split"
    /\ LET fall == [j \in 1..Len(qall) |->
                       [c \in 1..mW |-> RInv(qall[j][c])] \o <<>>] \o <<>>
           fi == fit_idx(icW, kW, nW)
           pi == pred_idx(icW, kW)
       IN  result' = [Qfit |-> rows_at(Qall, fi), Qpred |-> rows_at(Qall, pi),
                      qfit |-> rows_at(qall, fi), qpred |-> rows_at(qall, pi),
                      ffit |-> rows_at(fall, fi), fpred |-> rows_at(fall, pi),
                      xfit |-> xfit, xpred |-> xpred, QP_used |-> QP_used]
    /\ pcW' = "returned"
    /\ UNCHANGED <<argsW, xall, icW, qall, Q0all, dec, QP_used, iter, Qall,
                   qall0, Q0all0, varsU, varsN>>

NextW ==
    \/ Validate
    \/ Canonicalize
    \/ OLSFit
    \/ PositivityCheck
    \/ \E j \in 1..Len(iter) : IterReadAx(j)
    \/ \E j \in 1..Len(iter) : IterSolve(j)
    \/ \E j \in 1..Len(iter) : IterWriteQ(j)
    \/ \E j \in 1..Len(iter) : IterWriteQ0(j)
    \/ Integrate
    \/ Return

SpecW == InitW /\ [][NextW]_vars

-----------------------------------------------------------------------------
(* Properties of wasserstein_regression (SpecW) *)

AfterLoop == pcW \in {"split", "returned"}
Iters == 1..Len(iter)
(* the canonical rows whose projection succeeded, and those where the      *)
(* solver threw                                                            *)
SolvedRows == {dec[j] : j \in {a \in Iters : iter[a].ok}}
FailedRows == {dec[j] : j \in {a \in Iters : ~iter[a].ok}}
AtLeast(row, lo) == \A c \in 1..Len(row) : RLe(lo, row[c])

(* C1: when quadprog throws for a flagged row the call still returns and   *)
(* that row's quantile-at-zero and quantile-density values are the         *)
(* unprojected OLS values.                                                 *)
C1_Claim ==
    (pcW = "returned" /\ Increasing(t)) =>
        \A r \in FailedRows : qall[r] = qall0[r] /\ Q0all[r] = Q0all0[r]

(* C2: a grid that is not increasing, does not start at 0, does not end at *)
(* 1 or has the wrong length is rejected before any fitting.               *)
C2_Claim ==
    (~Increasing(t) \/ t[1] # RZero \/ t[Len(t)] # ROne \/ Len(t) # mW)
        => pcW \in {"validate", "thrown"}

(* C6: where the solver returned a point satisfying V*x <= v, the returned *)
(* quantile density of every prediction row and fit row that maps to that  *)
(* flagged canonical row has no entry below qdmin.                         *)
C6_NoEntryBelowQdmin ==
    pcW = "returned" =>
        /\ \A i \in 1..kW :
              icW[i] \in SolvedRows => AtLeast(result.qpred[i], qdmin)
        /\ \A i \in 1..nW :
              icW[kW + i] \in SolvedRows => AtLeast(result.qfit[i], qdmin)

C6_Witness ==
    /\ pcW = "returned"
    /\ \E i \in 1..kW : icW[i] \in SolvedRows
    /\ \E i \in 1..nW : icW[kW + i] \in SolvedRows
    /\ \E r \in 1..Len(qall0) : r \in SolvedRows /\ ~AtLeast(qall0[r], qdmin)

InvRow(row) == [c \in 1..Len(row) |-> RInv(row[c])] \o <<>>

(* C8: k predicted rows and n fitted rows are returned for Q, q and f;     *)
(* predicted row i is canonical row ic(i), fitted row i is canonical row   *)
(* ic(k+i); the entry of ic for the mean row (the last) selects nothing.   *)
C8_SplitByIndex ==
    pcW = "returned" =>
        /\ Len(icW) = kW + nW + 1
        /\ Len(result.Qpred) = kW /\ Len(result.qpred) = kW /\ Len(result.fpred) = kW
        /\ Len(result.Qfit) = nW /\ Len(result.qfit) = nW /\ Len(result.ffit) = nW
        /\ \A i \in 1..kW :
              /\ result.Qpred[i] = Qall[icW[i]]
              /\ result.qpred[i] = qall[icW[i]]
              /\ result.fpred[i] = InvRow(qall[icW[i]])
        /\ \A i \in 1..nW :
              /\ result.Qfit[i] = Qall[icW[kW + i]]
              /\ result.qfit[i] = qall[icW[kW + i]]
              /\ result.ffit[i] = InvRow(qall[icW[kW + i]])

(* the mean row has a canonical row of its own, which no returned row is *)
C8_Witness ==
    /\ pcW = "returned"
    /\ kW = 2 /\ nW = 3
    /\ \A i \in 1..(kW + nW) : icW[i] # icW[kW + nW + 1]
    /\ \E i \in 1..kW : \E j \in 1..nW : icW[i] = icW[kW + j]

Past(j, pcs) == iter[j].pc \in pcs

(* C10: the entries of dec are pairwise distinct; iteration j touches only *)
(* row dec(j) of qall and element dec(j) of Q0all; under every             *)
(* interleaving it reads the values the OLS fit left there, which are the  *)
(* values a sequential run of the loop reads, and after the loop row       *)
(* dec(j) holds what iteration j computed from them and every other row    *)
(* is as the OLS fit left it.                                              *)
C10_LoopIsRowLocal ==
    pcW \in {"loop", "split", "returned"} =>
        /\ \A a, b \in Iters : a # b => dec[a] # dec[b]
        /\ \A j \in Iters :
              /\ iter[j].touched \subseteq {<<"qall", dec[j]>>, <<"Q0all", dec[j]>>}
              /\ Past(j, {"hx", "wq", "wQ0", "done"}) => iter[j].ax = Q0all0[dec[j]]
              /\ Past(j, {"wq", "wQ0", "done"}) => iter[j].hx = qall0[dec[j]]
              /\ Past(j, {"wQ0", "done"}) =>
                    qall[dec[j]] = subvec(iter[j].tmp, 2, Len(iter[j].tmp))
              /\ Past(j, {"done"}) => Q0all[dec[j]] = iter[j].tmp[1]
        /\ \A r \in 1..Len(qall) :
              (\A j \in Iters : dec[j] # r) => (qall[r] = qall0[r] /\ Q0all[r] = Q0all0[r])

(* a state no sequential run has: iteration 2 is finished while            *)
(* iteration 1 is between its two writes                                   *)
C10_Witness ==
    /\ pcW = "loop"
    /\ Len(iter) >= 2
    /\ iter[2].pc = "done"
    /\ iter[1].pc = "wQ0"
    /\ iter[1].ok /\ ~iter[2].ok

-----------------------------------------------------------------------------
(* trapecio, eucdistance1 and the kernel: NadarayaRegression.h *)

(* trapecio(X, Y) for column vectors X, Y of equal length n >= 2: the last *)
(* entry of C, where C(0) = 0 and C.rows(1, n-1) = 0.5 * cumsum(tmp)       *)
trapecio_C(XX, YY) ==
    LET n == Len(XX)
        tmp == [k \in 1..(n - 1) |->
                   RMul(RSub(XX[k + 1], XX[k]), RAdd(YY[k + 1], YY[k]))] \o <<>>
    IN  <<RZero>> \o VScale(Half, CumSum(tmp))

(* a faulty trapecio that divides the integral by the grid length *)
trapecio_normalized(XX, YY) == RDiv(trapecio_C(XX, YY)[Len(XX)], RInt(Len(XX)))

trapecio(XX, YY) == trapecio_C(XX, YY)[Len(XX)]

(* sqrt(r) of a rational r >= 0 is kept as the surd [sqrt |-> r]: equal    *)
(* distances are equal surds and sqrt(0) is [sqrt |-> <<0, 1>>]            *)
Sqrt(r) == [sqrt |-> r]

(* (X.row(i) - X.row(j)) % (X.row(i) - X.row(j)) *)
sqdiff(ri, rj) ==
    [c \in 1..Len(ri) |-> RMul(RSub(ri[c], rj[c]), RSub(ri[c], rj[c]))] \o <<>>

(* eucdistance1(X, t): distancias(i,j) = sqrt(trapecio(t, sqdiff)) *)
eucdistance1(XX, tt) ==
    [i \in 1..Len(XX) |->
        [j \in 1..Len(XX) |-> Sqrt(trapecio(tt, sqdiff(XX[i], XX[j])))] \o <<>>] \o <<>>

(* 8 * (2 / sqrt(2*pi)) * exp(-k/8) for k = 0..19, rounded and never less  *)
(* than 1: exp in fixed point, in eighths, its argument in steps of 1/8;   *)
(* like exp, it is positive and does not increase                          *)
ExpTable ==
    << 6, 6, 5, 4, 4, 3, 3, 3, 2, 2, 2, 2, 1, 1, 1, 1, 1, 1, 1, 1 >>
ExpScale == 8

(* gaussiankernelinicial(x, h), one entry: (2/sqrt(2*pi)) *                *)
(* exp(-(x/h)*(x/h)*0.5) for x = sqrt(r), so the exponent is r / (2*h*h)   *)
kernel_entry(x, h) ==
    LET u == RDiv(x.sqrt, RMul(RInt(2), RMul(h, h)))
        k == (8 * u[1]) \div u[2]
    IN  Rat(ExpTable[(IF k + 1 > Len(ExpTable) THEN Len(ExpTable) ELSE k + 1)], ExpScale)

gaussiankernelinicial(xs, h) == [i \in 1..Len(xs) |-> kernel_entry(xs[i], h)] \o <<>>

(* sum(w % y) / sum(w) *)
weighted_mean(w, y) == RDiv(Dot(w, y), RSum(w))

(* M.rows(ri) then .cols(ci) *)
submat(M, ri, ci) == [a \in 1..Len(ri) |-> [b \in 1..Len(ci) |-> M[ri[a]][ci[b]]]] \o <<>>

(* v.rows(idx) of a column vector *)
pick(v, idx) == [a \in 1..Len(idx) |-> v[idx[a]]] \o <<>>

(* the loop over bandwidths j and query rows i shared by both functions:   *)
(* prediciones2(i, j) for fold column l                                    *)
prediciones2(dist, YY, hh, idx1, idx2) ==
    LET Y1 == pick(YY, idx1)
        distancias2 == submat(dist, idx2, idx1)
    IN  [i \in 1..Len(idx2) |->
            [j \in 1..Len(hh) |->
                weighted_mean(gaussiankernelinicial(distancias2[i], hh[j]), Y1)] \o <<>>] \o <<>>

(* a faulty fold loop whose training outcomes are all of Y *)
R2validacionaux_allY(dist, YY, hh, idx1, idx2) ==
    LET Y2 == pick(YY, idx2)
        pr == [i \in 1..Len(idx2) |->
                 [j \in 1..Len(hh) |->
                     weighted_mean(gaussiankernelinicial(dist[idx2[i]], hh[j]), YY)] \o <<>>] \o <<>>
    IN  [j \in 1..Len(hh) |->
            RSum([i \in 1..Len(idx2) |->
                    RMul(RSub(Y2[i], pr[i][j]), RSub(Y2[i], pr[i][j]))])] \o <<>>

(* nadayara_regression, lines 191-226: R2validacionaux(j) =                *)
(* sum((Y2 - aux3x) % (Y2 - aux3x)) for fold column l                      *)
R2validacionaux(dist, YY, hh, idx1, idx2) ==
    LET Y2 == pick(YY, idx2)
        pr == prediciones2(dist, YY, hh, idx1, idx2)
    IN  [j \in 1..Len(hh) |->
            RSum([i \in 1..Len(idx2) |->
                    RMul(RSub(Y2[i], pr[i][j]), RSub(Y2[i], pr[i][j]))])] \o <<>>

(* nadayara_regression, lines 230-249: the in-sample fit on all rows *)
in_sample(dist, YY, hh) ==
    LET n == Len(YY)
        media == RDiv(RSum(YY), RInt(n))
        residuos == [i \in 1..n |-> RSub(YY[i], media)] \o <<>>
        aux3 == [j \in 1..Len(hh) |->
                    [i \in 1..n |->
                        weighted_mean(gaussiankernelinicial(dist[i], hh[j]), YY)] \o <<>>] \o <<>>
        res == [j \in 1..Len(hh) |->
                   [i \in 1..n |-> RSub(YY[i], aux3[j][i])] \o <<>>] \o <<>>
        sse == [j \in 1..Len(hh) |-> Dot(res[j], res[j])] \o <<>>
        sst == Dot(residuos, residuos)
    IN  [prediction |-> [i \in 1..n |-> [j \in 1..Len(hh) |-> aux3[j][i]]],
         residuals |-> [i \in 1..n |-> [j \in 1..Len(hh) |-> res[j][i]]],
         error |-> sse,
         r2 |-> [j \in 1..Len(hh) |-> RSub(ROne, RDiv(sse[j], sst))]]

(* a faulty prediction loop that keeps the first fold's result *)
keep_first(prev, new) == IF prev = <<>> THEN new ELSE prev

(* line 310: prediccionesfinales = prediciones2 *)
assign_final(prev, new) == new

-----------------------------------------------------------------------------
(* nadayara_regression and nadayara_predicion, one action per step: the    *)
(* distance matrix, one pass of the fold loop, the in-sample fit / return  *)

MaxFold == 2
(* four curves on a grid of two or three points *)
Samples ==
    { [X |-> << <<RInt(0), RInt(0)>>, <<RInt(1), RInt(1)>>, <<RInt(2), RInt(2)>>,
                <<RInt(0), RInt(2)>> >>,
       t |-> <<RInt(0), RInt(1)>>],
      [X |-> << <<RInt(0), RInt(1), RInt(0)>>, <<RInt(1), RInt(1), RInt(2)>>,
                <<RInt(1), RInt(1), RInt(2)>>, <<RInt(2), RInt(0), RInt(1)>> >>,
       t |-> <<RInt(0), Half, ROne>>],
      [X |-> << <<RInt(1), RInt(0), RInt(0)>>, <<RInt(0), RInt(0), RInt(1)>>,
                <<RInt(2), RInt(1), RInt(0)>>, <<RInt(1), RInt(2), RInt(2)>> >>,
       t |-> <<RInt(0), RInt(1), RInt(3)>>] }
YVals == {RInt(1), RInt(2)}
Bandwidths == {<<RInt(1)>>, <<RInt(1), RInt(2)>>}
(* fold columns: training rows and validation (query) rows *)
FoldCols ==
    { [train |-> <<1, 2>>, validate |-> <<3>>],
      [train |-> <<3, 4>>, validate |-> <<1>>],
      [train |-> <<2, 4>>, validate |-> <<3>>] }

(* index matrices are kept as sequences of columns: indices1[l] is column l *)
InitN ==
    /\ IdleU
    /\ IdleW
    /\ \E s \in Samples : X = s.X /\ tN = s.t
    /\ Y \in [1..4 -> YVals]
    /\ hs \in Bandwidths
    /\ \E np \in 1..MaxFold : \E f \in [1..np -> FoldCols] :
          /\ indices1 = [c \in 1..np |-> f[c].train]
          /\ indices2 = [c \in 1..np |-> f[c].validate]
    /\ opN \in {"regression", "predicion"}
    /\ l = 1
    /\ distancias = <<>>
    /\ R2validacion = [c \in 1..Len(indices1) |-> <<>>]
    /\ prediccionesfinales = <<>>
    /\ insample = <<>>
    /\ pcN = "distances"

n1p == Len(indices1)

(* lines 179 and 277: distancias = eucdistance1(X, t) *)
Distances ==
    /\ pcN = "distances"
    /\ distancias' = eucdistance1(X, tN)
    /\ pcN' = "folds"
    /\ UNCHANGED <<argsN, l, R2validacion, prediccionesfinales, insample, varsU, varsW>>

(* nadayara_regression, lines 189-228: one pass of the fold loop *)
RegressionFold ==
    /\ pcN = "folds" /\ opN = "regression" /\ l <= n1p
    /\ R2validacion' = [R2validacion EXCEPT
                           ![l] = R2validacionaux(distancias, Y, hs, indices1[l], indices2[l])]
    /\ l' = l + 1
    /\ UNCHANGED <<argsN, distancias, prediccionesfinales, insample, pcN, varsU, varsW>>

(* nadayara_regression, lines 230-257: the in-sample fit and the return *)
RegressionReturn ==
    /\ pcN = "folds" /\ opN = "regression" /\ l > n1p
    /\ insample' = in_sample(distancias, Y, hs)
    /\ pcN' = "returned"
    /\ UNCHANGED <<argsN, l, distancias, R2validacion, prediccionesfinales, varsU, varsW>>

(* nadayara_predicion, lines 286-312: one pass of the fold loop *)
PredicionFold ==
    /\ pcN = "folds" /\ opN = "predicion" /\ l <= n1p
    /\ prediccionesfinales' =
          assign_final(prediccionesfinales,
                       prediciones2(distancias, Y, hs, indices1[l], indices2[l]))
    /\ l' = l + 1
    /\ UNCHANGED <<argsN, distancias, R2validacion, insample, pcN, varsU, varsW>>

(* nadayara_predicion, line 314 *)
PredicionReturn ==
    /\ pcN = "folds" /\ opN = "predicion" /\ l > n1p
    /\ pcN' = "returned"
    /\ UNCHANGED <<argsN, l, distancias, R2validacion, prediccionesfinales, insample,
                   varsU, varsW>>

NextN == Distances \/ RegressionFold \/ RegressionReturn \/ PredicionFold \/ PredicionReturn

SpecN == InitN /\ [][NextN]_vars

-----------------------------------------------------------------------------
(* Properties of eucdistance1, nadayara_regression and nadayara_predicion  *)
(* (SpecN)                                                                 *)

(* the trapezoid rule written out: the sum over the first k grid steps of  *)
(* (t(s+1) - t(s)) * (f(s) + f(s+1)) / 2                                   *)
RECURSIVE TrapezoidSum(_, _, _)
TrapezoidSum(tt, f, k) ==
    IF k = 0 THEN RZero
    ELSE RAdd(TrapezoidSum(tt, f, k - 1),
              RDiv(RMul(RSub(tt[k + 1], tt[k]), RAdd(f[k], f[k + 1])), RInt(2)))

SquaredDifference(i, j) ==
    [c \in 1..Len(tN) |->
        LET df == RSub(X[i][c], X[j][c]) IN RMul(df, df)] \o <<>>

L2Distance(i, j) == Sqrt(TrapezoidSum(tN, SquaredDifference(i, j), Len(tN) - 1))

Curves == 1..Len(X)

(* C7: eucdistance1(X, t) is n x n, symmetric, zero on the diagonal, and   *)
(* each entry is the square root of the trapezoid integral of the squared  *)
(* pointwise difference of the two curves, not divided by the grid length. *)
C7_DistanceMatrix ==
    pcN # "distances" =>
        /\ Len(distancias) = Len(X)
        /\ \A i \in Curves :
              /\ Len(distancias[i]) = Len(X)
              /\ distancias[i][i] = Sqrt(RZero)
              /\ \A j \in Curves :
                    /\ distancias[i][j] = distancias[j][i]
                    /\ distancias[i][j] = L2Distance(i, j)

(* distances on the uneven grid 0, 1, 3: curves 1 and 2 are 3/2 apart in   *)
(* squared distance, which is neither 0 nor the plain sum of the squared   *)
(* differences                                                             *)
C7_Witness ==
    /\ pcN = "folds"
    /\ tN = <<RInt(0), RInt(1), RInt(3)>>
    /\ distancias[1][2] = Sqrt(Rat(3, 2))
    /\ distancias[2][1] = Sqrt(Rat(3, 2))

(* the kernel-weighted prediction sum(w * Y1) / sum(w) for query row v     *)
(* from the training rows tr, bandwidth h and outcomes YY                  *)
KernelWeight(v, r, h) == kernel_entry(L2Distance(v, r), h)
FoldPrediction(YY, tr, v, h) ==
    RDiv(RSum([a \in 1..Len(tr) |-> RMul(KernelWeight(v, tr[a], h), YY[tr[a]])] \o <<>>),
         RSum([a \in 1..Len(tr) |-> KernelWeight(v, tr[a], h)] \o <<>>))

(* the sum of squared validation errors of one fold *)
FoldSSE(YY, tr, va, h) ==
    RSum([b \in 1..Len(va) |->
            LET e == RSub(YY[va[b]], FoldPrediction(YY, tr, va[b], h))
            IN  RMul(e, e)] \o <<>>)

FoldRows(c) ==
    {indices1[c][a] : a \in 1..Len(indices1[c])}
        \cup {indices2[c][b] : b \in 1..Len(indices2[c])}

(* outcome vectors that agree with Y on the rows of fold column c *)
SameOnFold(c) ==
    {Yp \in [1..Len(Y) -> YVals] : \A r \in FoldRows(c) : Yp[r] = Y[r]}

(* C5: entry (j, l) of r2_global is the sum over fold l's validation rows  *)
(* of the squared difference between the outcome and the prediction        *)
(* sum(w * Y1) / sum(w) from fold l's training rows; it is the same for    *)
(* every outcome vector that agrees with Y on fold l's train and validate  *)
(* rows, and reads no other fold column.                                   *)
C5_FoldError ==
    (opN = "regression" /\ pcN # "distances") =>
        \A c \in 1..(l - 1) :
            /\ Len(R2validacion[c]) = Len(hs)
            /\ \A j \in 1..Len(hs) : \A Yp \in SameOnFold(c) :
                  R2validacion[c][j] = FoldSSE(Yp, indices1[c], indices2[c], hs[j])

(* a returned cross-validation with two folds and two bandwidths whose     *)
(* first fold leaves a row out, has a nonzero error and differs from the   *)
(* second fold                                                             *)
C5_Witness ==
    /\ opN = "regression" /\ pcN = "returned"
    /\ n1p = 2 /\ Len(hs) = 2
    /\ FoldRows(1) # 1..Len(Y)
    /\ \E r \in (1..Len(Y)) \ FoldRows(1) : Y[r] # Y[indices1[1][1]]
    /\ R2validacion[1][1] # RZero
    /\ R2validacion[1] # R2validacion[2]

(* the predictions of one fold column: query rows by bandwidths *)
ColumnPrediction(c) ==
    [i \in 1..Len(indices2[c]) |->
        [j \in 1..Len(hs) |->
            FoldPrediction(Y, indices1[c], indices2[c][i], hs[j])] \o <<>>] \o <<>>

(* C4: nadayara_predicion returns the per-bandwidth weighted predictions   *)
(* of the last column of indices1 and indices2; nothing of an earlier      *)
(* column enters the returned matrix.                                      *)
C4_LastFoldOnly ==
    (opN = "predicion" /\ pcN = "returned") =>
        prediccionesfinales = ColumnPrediction(n1p)

(* a returned prediction over two fold columns whose first column gives    *)
(* other predictions than the last                                         *)
C4_Witness ==
    /\ opN = "predicion" /\ pcN = "returned"
    /\ n1p = 2
    /\ indices1[1] # indices1[2]
    /\ ColumnPrediction(1) # ColumnPrediction(2)
    /\ prediccionesfinales = ColumnPrediction(2)

-----------------------------------------------------------------------------
(* ic_unique_rows run on its own, one action per loop of the function *)

MaxRowsA == 3
NColsA == {1, 2, 3}
(* covariate values: 0, 0.002, 0.003 in the first column (steps below, at  *)
(* and above the tolerance), 0 and 0.003 in the others                     *)
FineVals == {Rat(0, 1000), Rat(2, 1000), Rat(3, 1000)}
CoarseVals == {Rat(0, 1000), Rat(3, 1000)}

MatricesA ==
    UNION {
        {M \in [1..nr -> [1..nc -> FineVals]] :
            \A i \in 1..nr : \A c \in 2..nc : M[i][c] \in CoarseVals}
        : <<nr, nc>> \in (1..MaxRowsA) \X NColsA}

InitU ==
    /\ IdleW
    /\ IdleN
    /\ A \in MatricesA
    /\ B = <<>>
    /\ indices = <<>>
    /\ C = <<>>
    /\ ic = <<>>
    /\ pcU = "unique"

UniqueLoop ==
    /\ pcU = "unique"
    /\ B' = unique_loop(A, 1, <<>>)
    /\ pcU' = "sort"
    /\ UNCHANGED <<A, indices, C, ic, varsW, varsN>>

SortIndex ==
    /\ pcU = "sort"
    /\ \E p \in sort_index(Col(B, 1)) : indices' = p
    /\ pcU' = "tie"
    /\ UNCHANGED <<A, B, C, ic, varsW, varsN>>

TieBreak ==
    /\ pcU = "tie"
    /\ indices' = tie_outer(B, indices, 1)
    /\ pcU' = "reorder"
    /\ UNCHANGED <<A, B, C, ic, varsW, varsN>>

Reorder ==
    /\ pcU = "reorder"
    /\ C' = reorder_rows(B, indices)
    /\ pcU' = "lookup"
    /\ UNCHANGED <<A, B, indices, ic, varsW, varsN>>

Lookup ==
    /\ pcU = "lookup"
    /\ ic' = lookup_rows(A, C)
    /\ pcU' = "done"
    /\ UNCHANGED <<A, B, indices, C, varsW, varsN>>

NextU == UniqueLoop \/ SortIndex \/ TieBreak \/ Reorder \/ Lookup

SpecU == InitU /\ [][NextU]_vars

-----------------------------------------------------------------------------
(* Properties of ic_unique_rows (SpecU) *)

RowsA == 1..Len(A)
(* the rows differ by less than 0.002 in every coordinate *)
DifferLess(i, j) == \A k \in 1..Len(A[i]) : RLt(RAbs(RSub(A[i][k], A[j][k])), Tol)
(* the rows differ by more than 0.002 in some coordinate *)
DifferMore(i, j) == \E k \in 1..Len(A[i]) : RGt(RAbs(RSub(A[i][k], A[j][k])), Tol)
(* the rows differ by at most 0.002 in every coordinate *)
Within(i, j) == ~DifferMore(i, j)
(* no chain i ~ k ~ j of rows within the tolerance whose ends are not *)
WithinTransitive ==
    \A i, j, k \in RowsA : (Within(i, k) /\ Within(k, j)) => Within(i, j)

(* C3, as stated: for any A and any two rows, in any row order, rows that  *)
(* differ by less than 0.002 in every coordinate get the same              *)
(* representative and rows that differ by more than 0.002 in some          *)
(* coordinate get different representatives.                               *)
C3_Original ==
    pcU = "done" =>
        \A i, j \in RowsA :
            /\ DifferLess(i, j) => ic[i] = ic[j]
            /\ DifferMore(i, j) => ic[i] # ic[j]

(* C3, amended: the same, for every A among whose rows "within 0.002 in    *)
(* every coordinate" is transitive (no row lies within the tolerance of    *)
(* two rows that are further apart than the tolerance).                    *)
C3_Amended ==
    (pcU = "done" /\ WithinTransitive) =>
        \A i, j \in RowsA :
            /\ DifferLess(i, j) => ic[i] = ic[j]
            /\ DifferMore(i, j) => ic[i] # ic[j]

C3_Witness ==
    /\ pcU = "done"
    /\ WithinTransitive
    /\ Len(A) = 3
    /\ \E i, j \in RowsA : i # j /\ A[i] # A[j] /\ DifferLess(i, j) /\ ic[i] = ic[j]
    /\ \E i, j \in RowsA : DifferMore(i, j) /\ ic[i] # ic[j]

(* lexicographic order on rows, first coordinate first *)
RECURSIVE LexLessFrom(_, _, _)
LexLessFrom(r1, r2, k) ==
    IF k > Len(r1) THEN FALSE
    ELSE IF RLt(r1[k], r2[k]) THEN TRUE
    ELSE IF RLt(r2[k], r1[k]) THEN FALSE
    ELSE LexLessFrom(r1, r2, k + 1)
LexLess(r1, r2) == LexLessFrom(r1, r2, 1)

(* colexicographic order on the coordinates after the first: the last      *)
(* coordinate is compared first                                            *)
RECURSIVE ColexLessFrom(_, _, _)
ColexLessFrom(r1, r2, k) ==
    IF k < 2 THEN FALSE
    ELSE IF RLt(r1[k], r2[k]) THEN TRUE
    ELSE IF RLt(r2[k], r1[k]) THEN FALSE
    ELSE ColexLessFrom(r1, r2, k - 1)
ColexLess(r1, r2) == ColexLessFrom(r1, r2, Len(r1))

CBuilt == pcU \in {"lookup", "done"}
TiedPairs == {<<i, j>> \in (1..Len(C)) \X (1..Len(C)) : i < j /\ C[i][1] = C[j][1]}

(* C9, as stated: the representatives are ascending on the first           *)
(* coordinate and, where the first coordinates are equal, in reverse       *)
(* lexicographic order of the remaining coordinates (read either as        *)
(* descending lexicographic order or as last-coordinate-first order).      *)
C9_Original ==
    CBuilt =>
        /\ \A i, j \in 1..Len(C) : i < j => RLe(C[i][1], C[j][1])
        /\ \/ \A pr \in TiedPairs : LexLessFrom(C[pr[2]], C[pr[1]], 2)
           \/ \A pr \in TiedPairs : ColexLess(C[pr[1]], C[pr[2]])

(* C9, amended: the representatives are in strictly ascending              *)
(* lexicographic order of all their coordinates (ascending on the first,   *)
(* ties broken by the remaining coordinates in ascending lexicographic     *)
(* order), whatever order sort_index left the ties in; they are the rows   *)
(* kept by the first loop, so the order depends only on that set.          *)
C9_Amended ==
    CBuilt =>
        /\ \A i, j \in 1..Len(C) : i < j => LexLess(C[i], C[j])
        /\ {C[i] : i \in 1..Len(C)} = {B[i] : i \in 1..Len(B)}
        /\ Len(C) = Len(B)

C9_Witness ==
    /\ pcU = "done"
    /\ Len(C) = 3
    /\ Len(C[1]) = 3
    /\ C[1][1] = C[2][1] /\ C[2][1] = C[3][1]
    /\ indices # <<1, 2, 3>>

(* row i of A is within 0.002 absolute difference of representative r in   *)
(* every coordinate                                                        *)
NearRepresentative(i, r) ==
    /\ Len(A[i]) = Len(C[r])
    /\ \A k \in 1..Len(A[i]) :
          /\ RLe(RSub(A[i][k], C[r][k]), Tol)
          /\ RLe(RSub(C[r][k], A[i][k]), Tol)

(* C11: for every A with at least one row, every ic(i) is the index of a   *)
(* representative within 0.002 of row i of A in every coordinate: the      *)
(* lookup has a match for every row, so a row is mapped to representative  *)
(* 0 only because representative 0 is within the tolerance of it.          *)
C11_LookupFindsMatch ==
    pcU = "done" =>
        /\ Len(ic) = Len(A)
        /\ \A i \in RowsA :
              /\ ic[i] \in 1..Len(C)
              /\ \E r \in 1..Len(C) : NearRepresentative(i, r)
              /\ NearRepresentative(i, ic[i])

(* three rows, two representatives: a row mapped to a representative other *)
(* than the first, a row mapped to the first one, and a row that is not    *)
(* itself a representative                                                 *)
C11_Witness ==
    /\ pcU = "done"
    /\ Len(A) = 3 /\ Len(C) = 2
    /\ \E i \in RowsA : ic[i] = 2 /\ ~NearRepresentative(i, 1)
    /\ \E i \in RowsA : ic[i] = 1
    /\ \E i \in RowsA : \A r \in 1..Len(C) : A[i] # C[r]

=============================================================================
